---- MODULE Spec2Model ----
(***************************************************************************)
(* State-machine model of the QuantumSimulation React component            *)
(* (src/src/components/QuantumSimulation.tsx, the later version; the       *)
(* earlier version src/unnamed/part_000 has the same registry handlers).   *)
(*                                                                         *)
(* Every React state cell the handlers read or write is a variable.  A     *)
(* handler runs to completion on the single UI thread and React applies    *)
(* its batched state updates before the next event, so each handler, each  *)
(* timer callback and each animation frame is one atomic action.           *)
(*                                                                         *)
(* Units.  Simulated time is counted in steps of 0.002 (the smallest       *)
(* increment: 0.02 * wave speed 0.1), wave speed in tenths, frequency in   *)
(* tenths of a hertz, phase in degrees.  Arithmetic is exact; the floating *)
(* point rounding of the running sum is not modelled.                      *)
(***************************************************************************)
EXTENDS Integers, Sequences, FiniteSets, TLC

----------------------------------------------------------------------------
\* Bounds of the model

\* user operations (clicks, taps, slider moves) in one behaviour
MaxOps == 3
\* simulated time reached by frames in Spec, in steps of 0.002
MaxTime == 31
\* simulated time reached by frames in SpecLog, in steps of 0.002
MaxLogTime == 100010

----------------------------------------------------------------------------
\* Program constants

\* setTime(prev => prev + 0.02 * waveSpeed[0]): 0.02 is 10 steps of 0.002
BaseIncrement == 10
\* waveSpeed is kept in tenths; 0.02 * (w/10) = (BaseIncrement * w) / 10 steps
SpeedScale == 10
\* time % 10: 10 simulated-time units are 5000 steps
MeasurePeriod == 5000
\* ... < 0.02: 10 steps
MeasureWindow == 10
\* prev.slice(-19) keeps the last 19 entries before the new one is appended
LogKeep == 19
\* useState([1]): wave speed 1.0
InitialWaveSpeed == 10
\* <canvas width={800} height={600}>
CanvasWidth == 800
CanvasHeight == 600
\* for (let x = 0; x < 800; x += 40), for (let y = 0; y < 600; y += 40)
NodeSpacing == 40
\* `obj${Date.now()}`: a wall-clock millisecond count, far above any length+1
DateNowBase == 1000000

Null == 0

Modes == {"teleportation", "interference", "tunneling", "superposition"}

\* Inputs drawn by the handlers
\* the ends of the slider's range 0.1 .. 3.0 and the initial value
WaveSpeeds == {1, InitialWaveSpeed, 30}
DateNowValues == {DateNowBase, DateNowBase + 1}
\* a tap: its offset inside the displayed canvas and the displayed size
TapInputs == {[dx |-> 300, dy |-> 250, w |-> 800, h |-> 600],
              [dx |-> 150, dy |-> 125, w |-> 400, h |-> 300]}
AddPoints == {<<400, 300>>}
SliderFrequencies == {5}
RandomFrequencies == {30}
RandomPhases == {90}
RandomAmplitudes == {45}
MeasurementValues == {0}

VARIABLES
    objects,              \* useState<QuantumObject[]>
    selectedObject,       \* useState<string | null>
    isRunning,            \* useState(true)
    time,                 \* useState(0)
    waveSpeed,            \* useState([1])
    experimentMode,       \* useState<ExperimentMode>('teleportation')
    measurements,         \* useState<Measurement[]>([])
    measurementMode,      \* useState(false)
    showInterference,     \* useState(true)
    teleportationSuccess, \* useState<string | null>(null)
    teleportTimers,       \* pending setTimeout(..., 800) callbacks, oldest first
    messageTimers,        \* pending setTimeout(() => setTeleportationSuccess(null), 3000)
    resonanceNodes,       \* useState<ResonanceNode[]>: the array held, named by
                          \* the run of the generator that built it
    frame,                \* what the last render() call painted on the canvas
    userOps,              \* number of user operations so far
    lastAction            \* name of the action taken last

vars == <<objects, selectedObject, isRunning, time, waveSpeed, experimentMode,
          measurements, measurementMode, showInterference, teleportationSuccess,
          teleportTimers, messageTimers, resonanceNodes, frame, userOps,
          lastAction>>

----------------------------------------------------------------------------
\* Object registry

SeedObjects ==
    << [id |-> 1, x |-> 150, y |-> 200, frequency |-> 20, phase |-> 0,
        amplitude |-> 50, isEntangled |-> TRUE, entangledWith |-> 2,
        isTeleporting |-> FALSE],
       [id |-> 2, x |-> 550, y |-> 300, frequency |-> 20, phase |-> 180,
        amplitude |-> 50, isEntangled |-> TRUE, entangledWith |-> 1,
        isTeleporting |-> FALSE] >>

\* variant: a new object starts flagged entangled
NewObjectEntangled(newId, p, f, ph, a) ==
    [id |-> newId, x |-> p[1], y |-> p[2], frequency |-> f, phase |-> ph,
     amplitude |-> a, isEntangled |-> TRUE, entangledWith |-> Null,
     isTeleporting |-> FALSE]

\* newObj of addQuantumObject, handleCanvasClick and onTouchStart
NewObject(newId, p, f, ph, a) ==
    [id |-> newId, x |-> p[1], y |-> p[2], frequency |-> f, phase |-> ph,
     amplitude |-> a, isEntangled |-> FALSE, entangledWith |-> Null,
     isTeleporting |-> FALSE]

Ids(objs) == {objs[i].id : i \in DOMAIN objs}

\* variant: the index test dropped, every object is flagged
MarkAllTeleporting(objs) ==
    [i \in DOMAIN objs |-> [objs[i] EXCEPT !.isTeleporting = TRUE]]

\* variant: only the first object is flagged (index < 1)
MarkFirstTeleporting(objs) ==
    [i \in DOMAIN objs |->
        IF i <= 1 THEN [objs[i] EXCEPT !.isTeleporting = TRUE] ELSE objs[i]]

\* prev.map((obj, index) => index < 2 ? {...obj, isTeleporting: true} : obj)
MarkTeleporting(objs) ==
    [i \in DOMAIN objs |->
        IF i <= 2 THEN [objs[i] EXCEPT !.isTeleporting = TRUE] ELSE objs[i]]

\* variant: the two array elements are exchanged, not their coordinates
SwapWholeObjects(objs) ==
    [i \in DOMAIN objs |->
        IF i = 1 THEN [objs[2] EXCEPT !.isTeleporting = FALSE]
        ELSE IF i = 2 THEN [objs[1] EXCEPT !.isTeleporting = FALSE]
        ELSE objs[i]]

\* variant: the flags are left set
SwapKeepingFlag(objs) ==
    [i \in DOMAIN objs |->
        IF i = 1 THEN [objs[1] EXCEPT !.x = objs[2].x, !.y = objs[2].y]
        ELSE IF i = 2 THEN [objs[2] EXCEPT !.x = objs[1].x, !.y = objs[1].y]
        ELSE objs[i]]

\* variant: no temp copy, the second object reads the overwritten first
SwapWithoutTemp(objs) ==
    [i \in DOMAIN objs |->
        IF i = 1 THEN [objs[1] EXCEPT !.x = objs[2].x, !.y = objs[2].y,
                                      !.isTeleporting = FALSE]
        ELSE IF i = 2 THEN [objs[2] EXCEPT !.isTeleporting = FALSE]
        ELSE objs[i]]

\* the deferred updater: exchange x and y of the first two, clear both flags
SwapFirstTwo(objs) ==
    [i \in DOMAIN objs |->
        IF i = 1 THEN [objs[1] EXCEPT !.x = objs[2].x, !.y = objs[2].y,
                                      !.isTeleporting = FALSE]
        ELSE IF i = 2 THEN [objs[2] EXCEPT !.x = objs[1].x, !.y = objs[1].y,
                                           !.isTeleporting = FALSE]
        ELSE objs[i]]

\* variant: the relation kept symmetric, the partner's flag follows
FlipEntangledWithPartner(objs, objId) ==
    [i \in DOMAIN objs |->
        IF objs[i].id = objId \/ objs[i].entangledWith = objId
        THEN [objs[i] EXCEPT !.isEntangled = ~objs[i].isEntangled]
        ELSE objs[i]]

\* prev.map(obj => obj.id === objId ? {...obj, isEntangled: !obj.isEntangled} : obj)
FlipEntangled(objs, objId) ==
    [i \in DOMAIN objs |->
        IF objs[i].id = objId
        THEN [objs[i] EXCEPT !.isEntangled = ~objs[i].isEntangled]
        ELSE objs[i]]

\* variant: the id test dropped, every object takes the value
WithFrequencyAll(objs, sel, v) ==
    [i \in DOMAIN objs |-> [objs[i] EXCEPT !.frequency = v]]

\* prev.map(obj => obj.id === selectedObject ? {...obj, frequency: value[0]} : obj)
WithFrequency(objs, sel, v) ==
    [i \in DOMAIN objs |->
        IF objs[i].id = sel THEN [objs[i] EXCEPT !.frequency = v] ELSE objs[i]]

----------------------------------------------------------------------------
\* Field generator.  The state cell holds a reference to an array that no code
\* writes to after it is built; the variable resonanceNodes holds the number of
\* the generator run that built the array, and GenerateNodes gives its content.

\* values a loop "for (v = 0; v < extent; v += spacing)" passes through
LoopCount(extent, spacing) == (extent + spacing - 1) \div spacing

\* Math.random() * 0.3 + 0.2 in hundredths and Math.random() * 2 pi in
\* degrees, as drawn for the k-th node in the given run of the generator
RandomIntensity(run, k) == 20 + ((7 * k * run) % 30)
RandomNodePhase(run, k) == (37 * k * run) % 360

\* the mount effect: x outer, y inner, one node pushed per pair
GenerateNodes(run) ==
    LET rows == LoopCount(CanvasHeight, NodeSpacing)
        cols == LoopCount(CanvasWidth, NodeSpacing)
    IN  [k \in 1..(cols * rows) |->
            [x |-> NodeSpacing * ((k - 1) \div rows),
             y |-> NodeSpacing * ((k - 1) % rows),
             intensity |-> RandomIntensity(run, k),
             phase |-> RandomNodePhase(run, k)]]

----------------------------------------------------------------------------
\* Renderer

\* drawEntanglementLink returns before drawing unless both are flagged
DrawsEntanglementLink(obj1, obj2) == obj1.isEntangled /\ obj2.isEntangled

\* the nested loop of render(): pairs i < j whose link is drawn
RenderedLinks(objs) ==
    {p \in (DOMAIN objs) \X (DOMAIN objs) :
        /\ p[1] < p[2]
        /\ objs[p[1]].entangledWith = objs[p[2]].id
        /\ DrawsEntanglementLink(objs[p[1]], objs[p[2]])}

\* variant: the draw functions do not test the mode
RenderedOverlaysAll(mode) == {"interference", "tunneling", "superposition"}

\* drawInterferencePattern, drawTunnelingBarrier, drawSuperpositionStates:
\* each returns at once unless its own mode is active
RenderedOverlays(mode) ==
    {m \in {"interference", "tunneling", "superposition"} : m = mode}

NoFrame == [painted |-> FALSE]

Render(objs, mode, t, particles) ==
    [painted |-> TRUE, time |-> t, links |-> RenderedLinks(objs),
     overlays |-> RenderedOverlays(mode), particles |-> particles,
     dimmed |-> {i \in DOMAIN objs : objs[i].isTeleporting}]

----------------------------------------------------------------------------
\* Measurement recorder

\* variant: slice(0, n), the oldest entries are kept
FirstN(s, n) ==
    IF Len(s) <= n THEN s ELSE SubSeq(s, 1, n)

\* prev.slice(-n)
LastN(s, n) ==
    IF Len(s) <= n THEN s ELSE SubSeq(s, Len(s) - n + 1, Len(s))

\* variant: no slice, the log grows without bound
AppendUnbounded(log, m) == Append(log, m)

\* [...prev.slice(-19), newMeasurement]
AppendMeasurement(log, m) == Append(LastN(log, LogKeep), m)

\* variant: the type is not taken from the active mode
NewMeasurementOfFixedType(t, v, mode) ==
    [timestamp |-> t, value |-> v, type |-> "teleportation"]

\* newMeasurement: { timestamp: time, value: ..., type: experimentMode }
NewMeasurement(t, v, mode) == [timestamp |-> t, value |-> v, type |-> mode]

\* variant: the measurementMode test dropped
SamplesAlways(mm, t) == (t % MeasurePeriod) < MeasureWindow

\* measurementMode && time % 10 < 0.02
SamplesAt(mm, t) == mm /\ (t % MeasurePeriod) < MeasureWindow

\* the measurement step of render(): the log render() leaves behind
RenderLog(log, mm, t, v, mode) ==
    IF SamplesAt(mm, t)
    THEN AppendMeasurement(log, NewMeasurement(t, v, mode))
    ELSE log

----------------------------------------------------------------------------
Init ==
    /\ objects = SeedObjects
    /\ selectedObject = Null
    /\ isRunning = TRUE
    /\ time = 0
    /\ waveSpeed = InitialWaveSpeed
    /\ experimentMode = "teleportation"
    /\ measurements = <<>>
    /\ measurementMode = FALSE
    /\ showInterference = TRUE
    /\ teleportationSuccess = "null"
    /\ teleportTimers = <<>>
    /\ messageTimers = 0
    /\ resonanceNodes = 1
    /\ frame = NoFrame
    /\ userOps = 0
    /\ lastAction = "Init"

UserOp == userOps < MaxOps /\ userOps' = userOps + 1

----------------------------------------------------------------------------
\* variant: the frame callback ignores the running flag
FrameRunsAlways(running) == TRUE

\* if (!isRunning) return; the effect requests a frame only while isRunning
\* and cancels the requested one otherwise
FrameRuns(running) == running

\* variant: the speed factor left out, prev + 0.02
TimeAdvanceIgnoringSpeed(t, w) == t + BaseIncrement

\* prev + 0.02 * waveSpeed[0]
TimeAdvance(t, w) == t + (BaseIncrement * w) \div SpeedScale

\* Animation frame: animate() called by requestAnimationFrame.  render() runs
\* with the state of the last React render, then the queued updates apply.
AnimationFrame(limit) ==
    /\ FrameRuns(isRunning)
    /\ TimeAdvance(time, waveSpeed) <= limit
    /\ time' = TimeAdvance(time, waveSpeed)
    /\ frame' = Render(objects, experimentMode, time, showInterference)
    /\ \E v \in MeasurementValues :
         measurements' =
            RenderLog(measurements, measurementMode, time, v, experimentMode)
    /\ UNCHANGED <<objects, selectedObject, isRunning, waveSpeed, experimentMode,
                   measurementMode, showInterference, teleportationSuccess,
                   teleportTimers, messageTimers, userOps>>
    /\ UNCHANGED resonanceNodes
    /\ lastAction' = "Tick"

Tick == AnimationFrame(MaxTime)

----------------------------------------------------------------------------
\* A pending timer carries no data in the code.  The record kept for it here is
\* history the properties refer to: the positions of the first two objects when
\* teleport was invoked, and whether the delay has so far been undisturbed (no
\* other commit has fired and no reset has happened since the invocation).
\* Invocations overlap when one is made while an earlier commit is pending; for
\* such a run the record also keeps the positions at the run's first invocation
\* (s0, s1), the invocation's number in the run (n) and whether the run has
\* seen no reset (intact).
Disturbed(timers) ==
    [i \in DOMAIN timers |-> [timers[i] EXCEPT !.clean = FALSE]]

DisturbedByReset(timers) ==
    [i \in DOMAIN timers |-> [timers[i] EXCEPT !.clean = FALSE, !.intact = FALSE]]

TimerRecord(objs, timers) ==
    LET here0 == <<objs[1].x, objs[1].y>>
        here1 == <<objs[2].x, objs[2].y>>
    IN  IF timers = <<>>
        THEN [p0 |-> here0, p1 |-> here1, clean |-> TRUE,
              s0 |-> here0, s1 |-> here1, n |-> 1, intact |-> TRUE]
        ELSE LET last == timers[Len(timers)]
             IN  [p0 |-> here0, p1 |-> here1, clean |-> TRUE,
                  s0 |-> last.s0, s1 |-> last.s1, n |-> last.n + 1,
                  intact |-> last.intact]

\* variant: a new invocation clears the timeout of the pending one
HandleTeleportReplacingPending ==
    IF Len(objects) < 2
    THEN UNCHANGED <<objects, teleportTimers>>
    ELSE /\ objects' = MarkTeleporting(objects)
         /\ teleportTimers' = <<TimerRecord(objects, teleportTimers)>>

\* variant: the length test is objects.length < 1
HandleTeleportOffByOne ==
    IF Len(objects) < 1
    THEN UNCHANGED <<objects, teleportTimers>>
    ELSE /\ objects' = MarkTeleporting(objects)
         /\ teleportTimers' = Append(teleportTimers,
                [p0 |-> <<objects[1].x, objects[1].y>>,
                 p1 |-> <<objects[Len(objects)].x, objects[Len(objects)].y>>,
                 clean |-> TRUE,
                 s0 |-> <<objects[1].x, objects[1].y>>,
                 s1 |-> <<objects[Len(objects)].x, objects[Len(objects)].y>>,
                 n |-> Len(teleportTimers) + 1, intact |-> TRUE])

\* variant: the flags are not set, only the commit is scheduled
HandleTeleportWithoutFlag ==
    IF Len(objects) < 2
    THEN UNCHANGED <<objects, teleportTimers>>
    ELSE /\ objects' = objects
         /\ teleportTimers' = Append(teleportTimers,
                                     TimerRecord(objects, teleportTimers))

\* handleTeleport
HandleTeleport ==
    IF Len(objects) < 2
    THEN UNCHANGED <<objects, teleportTimers>>
    ELSE /\ objects' = MarkTeleporting(objects)
         /\ teleportTimers' = Append(teleportTimers,
                                     TimerRecord(objects, teleportTimers))

\* the setTimeout(..., 800) callback
TeleportCommit ==
    /\ teleportTimers # <<>>
    /\ objects' = SwapFirstTwo(objects)
    /\ teleportTimers' = Disturbed(Tail(teleportTimers))
    /\ teleportationSuccess' = "Quantum teleportation successful!"
    /\ messageTimers' = messageTimers + 1
    /\ UNCHANGED <<selectedObject, isRunning, time, waveSpeed, experimentMode,
                   measurements, measurementMode, showInterference, frame, userOps>>
    /\ UNCHANGED resonanceNodes
    /\ lastAction' = "TeleportCommit"

\* the setTimeout(() => setTeleportationSuccess(null), 3000) callback
ClearMessage ==
    /\ messageTimers > 0
    /\ messageTimers' = messageTimers - 1
    /\ teleportationSuccess' = "null"
    /\ UNCHANGED <<objects, selectedObject, isRunning, time, waveSpeed,
                   experimentMode, measurements, measurementMode, showInterference,
                   teleportTimers, frame, userOps>>
    /\ UNCHANGED resonanceNodes
    /\ lastAction' = "ClearMessage"

\* variant: the interference case leaves the particle overlay as it is
RunExperimentKeepingParticles ==
    /\ UserOp
    /\ CASE experimentMode = "teleportation" ->
              /\ HandleTeleport
              /\ UNCHANGED <<showInterference, teleportationSuccess, messageTimers>>
         [] experimentMode = "interference" ->
              /\ teleportationSuccess' = "Double-slit interference activated!"
              /\ messageTimers' = messageTimers + 1
              /\ UNCHANGED <<objects, teleportTimers, showInterference>>
         [] experimentMode = "tunneling" ->
              /\ teleportationSuccess' = "Tunneling probability"
              /\ messageTimers' = messageTimers + 1
              /\ UNCHANGED <<objects, teleportTimers, showInterference>>
         [] experimentMode = "superposition" ->
              /\ teleportationSuccess' = "Quantum superposition states visualized!"
              /\ messageTimers' = messageTimers + 1
              /\ UNCHANGED <<objects, teleportTimers, showInterference>>
    /\ UNCHANGED <<selectedObject, isRunning, time, waveSpeed, experimentMode,
                   measurements, measurementMode, frame>>
    /\ UNCHANGED resonanceNodes
    /\ lastAction' = "RunExperiment"

\* runExperiment: switch (experimentMode)
RunExperiment ==
    /\ UserOp
    /\ CASE experimentMode = "teleportation" ->
              /\ HandleTeleport
              /\ UNCHANGED <<showInterference, teleportationSuccess, messageTimers>>
         [] experimentMode = "interference" ->
              /\ showInterference' = TRUE
              /\ teleportationSuccess' = "Double-slit interference activated!"
              /\ messageTimers' = messageTimers + 1
              /\ UNCHANGED <<objects, teleportTimers>>
         [] experimentMode = "tunneling" ->
              /\ teleportationSuccess' = "Tunneling probability"
              /\ messageTimers' = messageTimers + 1
              /\ UNCHANGED <<objects, teleportTimers, showInterference>>
         [] experimentMode = "superposition" ->
              /\ teleportationSuccess' = "Quantum superposition states visualized!"
              /\ messageTimers' = messageTimers + 1
              /\ UNCHANGED <<objects, teleportTimers, showInterference>>
    /\ UNCHANGED <<selectedObject, isRunning, time, waveSpeed, experimentMode,
                   measurements, measurementMode, frame>>
    /\ UNCHANGED resonanceNodes
    /\ lastAction' = "RunExperiment"

\* variant: the new object takes the place of the last one
AddQuantumObjectReplacingLast ==
    /\ UserOp
    /\ \E p \in AddPoints, f \in RandomFrequencies, ph \in RandomPhases,
          a \in RandomAmplitudes :
         objects' = [objects EXCEPT ![Len(objects)] =
                        NewObject(Len(objects) + 1, p, f, ph, a)]
    /\ UNCHANGED <<selectedObject, isRunning, time, waveSpeed, experimentMode,
                   measurements, measurementMode, showInterference,
                   teleportationSuccess, teleportTimers, messageTimers, frame>>
    /\ UNCHANGED resonanceNodes
    /\ lastAction' = "AddQuantumObject"

\* addQuantumObject
AddQuantumObject ==
    /\ UserOp
    /\ \E p \in AddPoints, f \in RandomFrequencies, ph \in RandomPhases,
          a \in RandomAmplitudes :
         objects' = Append(objects, NewObject(Len(objects) + 1, p, f, ph, a))
    /\ UNCHANGED <<selectedObject, isRunning, time, waveSpeed, experimentMode,
                   measurements, measurementMode, showInterference,
                   teleportationSuccess, teleportTimers, messageTimers, frame>>
    /\ UNCHANGED resonanceNodes
    /\ lastAction' = "AddQuantumObject"

\* (event.clientX - rect.left) * (canvas.width / rect.width), and so for y
CanvasPoint(tap) ==
    <<(tap.dx * CanvasWidth) \div tap.w, (tap.dy * CanvasHeight) \div tap.h>>

\* Date.now() does not run backwards: a reading is no earlier than the readings
\* that named the objects already registered
ClockReadings(objs) ==
    {now \in DateNowValues :
        \A i \in DOMAIN objs : objs[i].id >= DateNowBase => now >= objs[i].id}

\* variant: the mode test dropped, a tap creates an object in every mode
CanvasTapInAnyMode ==
    /\ UserOp
    /\ \E tap \in TapInputs, now \in ClockReadings(objects),
          f \in RandomFrequencies, ph \in RandomPhases, a \in RandomAmplitudes :
         objects' = Append(objects, NewObject(now, CanvasPoint(tap), f, ph, a))
    /\ UNCHANGED <<selectedObject, isRunning, time, waveSpeed, experimentMode,
                   measurements, measurementMode, showInterference,
                   teleportationSuccess, teleportTimers, messageTimers, frame>>
    /\ UNCHANGED resonanceNodes
    /\ lastAction' = "CanvasTap"

\* handleCanvasClick and the canvas onTouchStart handler
CanvasTap ==
    /\ UserOp
    /\ IF experimentMode = "teleportation"
       THEN \E tap \in TapInputs, now \in ClockReadings(objects),
               f \in RandomFrequencies, ph \in RandomPhases,
               a \in RandomAmplitudes :
              objects' = Append(objects, NewObject(now, CanvasPoint(tap), f, ph, a))
       ELSE UNCHANGED objects
    /\ UNCHANGED <<selectedObject, isRunning, time, waveSpeed, experimentMode,
                   measurements, measurementMode, showInterference,
                   teleportationSuccess, teleportTimers, messageTimers, frame>>
    /\ UNCHANGED resonanceNodes
    /\ lastAction' = "CanvasTap"

\* toggleEntanglement(obj.id), offered for every listed object
ToggleEntanglement ==
    /\ UserOp
    /\ \E objId \in Ids(objects) : objects' = FlipEntangled(objects, objId)
    /\ UNCHANGED <<selectedObject, isRunning, time, waveSpeed, experimentMode,
                   measurements, measurementMode, showInterference,
                   teleportationSuccess, teleportTimers, messageTimers, frame>>
    /\ UNCHANGED resonanceNodes
    /\ lastAction' = "ToggleEntanglement"

\* onClick={() => setSelectedObject(obj.id)}, offered for every listed object
SelectObject ==
    /\ UserOp
    /\ \E objId \in Ids(objects) : selectedObject' = objId
    /\ UNCHANGED <<objects, isRunning, time, waveSpeed, experimentMode,
                   measurements, measurementMode, showInterference,
                   teleportationSuccess, teleportTimers, messageTimers, frame>>
    /\ UNCHANGED resonanceNodes
    /\ lastAction' = "SelectObject"

\* updateFrequency; the slider is shown only while selectedObj is found
UpdateFrequency ==
    /\ UserOp
    /\ selectedObject \in Ids(objects)
    /\ \E v \in SliderFrequencies :
         objects' = IF selectedObject # Null
                    THEN WithFrequency(objects, selectedObject, v)
                    ELSE objects
    /\ UNCHANGED <<selectedObject, isRunning, time, waveSpeed, experimentMode,
                   measurements, measurementMode, showInterference,
                   teleportationSuccess, teleportTimers, messageTimers, frame>>
    /\ UNCHANGED resonanceNodes
    /\ lastAction' = "UpdateFrequency"

\* variant: resuming restarts the clock
PauseResumeResettingTime ==
    /\ UserOp
    /\ isRunning' = ~isRunning
    /\ time' = IF isRunning THEN time ELSE 0
    /\ UNCHANGED <<objects, selectedObject, waveSpeed, experimentMode,
                   measurements, measurementMode, showInterference,
                   teleportationSuccess, teleportTimers, messageTimers, frame>>
    /\ UNCHANGED resonanceNodes
    /\ lastAction' = "PauseResume"

\* variant: pausing cancels the pending teleport commits
PauseResumeCancelling ==
    /\ UserOp
    /\ isRunning' = ~isRunning
    /\ teleportTimers' = IF isRunning THEN <<>> ELSE teleportTimers
    /\ UNCHANGED <<objects, selectedObject, time, waveSpeed, experimentMode,
                   measurements, measurementMode, showInterference,
                   teleportationSuccess, messageTimers, frame>>
    /\ UNCHANGED resonanceNodes
    /\ lastAction' = "PauseResume"

\* setIsRunning(!isRunning)
PauseResume ==
    /\ UserOp
    /\ isRunning' = ~isRunning
    /\ UNCHANGED <<objects, selectedObject, time, waveSpeed, experimentMode,
                   measurements, measurementMode, showInterference,
                   teleportationSuccess, teleportTimers, messageTimers, frame>>
    /\ UNCHANGED resonanceNodes
    /\ lastAction' = "PauseResume"

\* setShowInterference(!showInterference)
ToggleParticles ==
    /\ UserOp
    /\ showInterference' = ~showInterference
    /\ UNCHANGED <<objects, selectedObject, isRunning, time, waveSpeed,
                   experimentMode, measurements, measurementMode,
                   teleportationSuccess, teleportTimers, messageTimers, frame>>
    /\ UNCHANGED resonanceNodes
    /\ lastAction' = "ToggleParticles"

\* setMeasurementMode(!measurementMode)
ToggleMeasurementMode ==
    /\ UserOp
    /\ measurementMode' = ~measurementMode
    /\ UNCHANGED <<objects, selectedObject, isRunning, time, waveSpeed,
                   experimentMode, measurements, showInterference,
                   teleportationSuccess, teleportTimers, messageTimers, frame>>
    /\ UNCHANGED resonanceNodes
    /\ lastAction' = "ToggleMeasurementMode"

\* variant: leaving a mode cancels the pending teleport commits
SetExperimentModeCancelling ==
    /\ UserOp
    /\ \E m \in Modes : experimentMode' = m
    /\ teleportTimers' = <<>>
    /\ UNCHANGED <<objects, selectedObject, isRunning, time, waveSpeed,
                   measurements, measurementMode, showInterference,
                   teleportationSuccess, messageTimers, frame>>
    /\ UNCHANGED resonanceNodes
    /\ lastAction' = "SetExperimentMode"

\* Tabs onValueChange: setExperimentMode(value)
SetExperimentMode ==
    /\ UserOp
    /\ \E m \in Modes : experimentMode' = m
    /\ UNCHANGED <<objects, selectedObject, isRunning, time, waveSpeed,
                   measurements, measurementMode, showInterference,
                   teleportationSuccess, teleportTimers, messageTimers, frame>>
    /\ UNCHANGED resonanceNodes
    /\ lastAction' = "SetExperimentMode"

\* wave speed Slider onValueChange={setWaveSpeed}
SetWaveSpeed ==
    /\ UserOp
    /\ \E w \in WaveSpeeds : waveSpeed' = w
    /\ UNCHANGED <<objects, selectedObject, isRunning, time, experimentMode,
                   measurements, measurementMode, showInterference,
                   teleportationSuccess, teleportTimers, messageTimers, frame>>
    /\ UNCHANGED resonanceNodes
    /\ lastAction' = "SetWaveSpeed"

\* variant: setTime(0) left out
ResetKeepingTime ==
    /\ UserOp
    /\ objects' = SeedObjects
    /\ measurements' = <<>>
    /\ teleportTimers' = DisturbedByReset(teleportTimers)
    /\ UNCHANGED <<selectedObject, isRunning, time, waveSpeed, experimentMode,
                   measurementMode, showInterference, teleportationSuccess,
                   messageTimers, frame>>
    /\ UNCHANGED resonanceNodes
    /\ lastAction' = "ResetExperiment"

\* variant: setMeasurements([]) left out
ResetKeepingLog ==
    /\ UserOp
    /\ objects' = SeedObjects
    /\ time' = 0
    /\ teleportTimers' = DisturbedByReset(teleportTimers)
    /\ UNCHANGED <<selectedObject, isRunning, waveSpeed, experimentMode,
                   measurements, measurementMode, showInterference,
                   teleportationSuccess, messageTimers, frame>>
    /\ UNCHANGED resonanceNodes
    /\ lastAction' = "ResetExperiment"

\* variant: reset empties the registry
ResetToEmpty ==
    /\ UserOp
    /\ objects' = <<>>
    /\ measurements' = <<>>
    /\ time' = 0
    /\ teleportTimers' = DisturbedByReset(teleportTimers)
    /\ UNCHANGED <<selectedObject, isRunning, waveSpeed, experimentMode,
                   measurementMode, showInterference, teleportationSuccess,
                   messageTimers, frame>>
    /\ UNCHANGED resonanceNodes
    /\ lastAction' = "ResetExperiment"

\* variant: reset runs the field generator again
ResetRegeneratingNodes ==
    /\ UserOp
    /\ objects' = SeedObjects
    /\ measurements' = <<>>
    /\ time' = 0
    /\ teleportTimers' = DisturbedByReset(teleportTimers)
    /\ resonanceNodes' = resonanceNodes + 1
    /\ UNCHANGED <<selectedObject, isRunning, waveSpeed, experimentMode,
                   measurementMode, showInterference, teleportationSuccess,
                   messageTimers, frame>>
    /\ lastAction' = "ResetExperiment"

\* resetExperiment
ResetExperiment ==
    /\ UserOp
    /\ objects' = SeedObjects
    /\ measurements' = <<>>
    /\ time' = 0
    /\ teleportTimers' = DisturbedByReset(teleportTimers)
    /\ UNCHANGED <<selectedObject, isRunning, waveSpeed, experimentMode,
                   measurementMode, showInterference, teleportationSuccess,
                   messageTimers, frame>>
    /\ UNCHANGED resonanceNodes
    /\ lastAction' = "ResetExperiment"

Next ==
    \/ Tick
    \/ TeleportCommit
    \/ ClearMessage
    \/ RunExperiment
    \/ AddQuantumObject
    \/ CanvasTap
    \/ ToggleEntanglement
    \/ SelectObject
    \/ UpdateFrequency
    \/ PauseResume
    \/ ToggleParticles
    \/ ToggleMeasurementMode
    \/ SetExperimentMode
    \/ SetWaveSpeed
    \/ ResetExperiment

Spec == Init /\ [][Next]_vars

\* A timer callback that is due runs: the browser's event loop keeps taking
\* tasks, whether the simulation is running or paused.
SpecFair == Init /\ [][Next]_vars /\ WF_vars(TeleportCommit)

----------------------------------------------------------------------------
\* Long run of the measurement recorder.  At the initial wave speed one sample
\* falls in every 500 frames, so a full log needs about ten thousand frames;
\* the user operations are taken before the first frame.
LongRunFrame == AnimationFrame(MaxLogTime)

NextLog ==
    \/ LongRunFrame
    \/ (time = 0 /\ ToggleMeasurementMode)
    \/ (time = 0 /\ SetExperimentMode)
    \/ (time = 0 /\ PauseResume)

SpecLog == Init /\ [][NextLog]_vars

----------------------------------------------------------------------------
\* The handlers and the render pass applied to registries drawn from the input
\* domain QuantumObject[]: any length from 0, any flag and any reference,
\* including registries the handlers themselves never produce.
MaxInputObjects == 2

InputObject(i, ent, ref) ==
    [id |-> i, x |-> 100 * i, y |-> 50 * i, frequency |-> 20, phase |-> 0,
     amplitude |-> 50, isEntangled |-> ent, entangledWith |-> ref,
     isTeleporting |-> FALSE]

InputRegistries ==
    UNION {
        {[i \in 1..n |-> InputObject(i, ent[i], ref[i])] :
            ent \in [1..n -> BOOLEAN], ref \in [1..n -> 0..(MaxInputObjects + 1)]} :
        n \in 0..MaxInputObjects}

InitInputs ==
    /\ objects \in InputRegistries
    /\ selectedObject = Null
    /\ isRunning = TRUE
    /\ time = 0
    /\ waveSpeed = InitialWaveSpeed
    /\ experimentMode = "teleportation"
    /\ measurements = <<>>
    /\ measurementMode = FALSE
    /\ showInterference = TRUE
    /\ teleportationSuccess = "null"
    /\ teleportTimers = <<>>
    /\ messageTimers = 0
    /\ resonanceNodes = 1
    /\ frame = NoFrame
    /\ userOps = 0
    /\ lastAction = "Init"

\* the first frame at the initial wave speed
FirstFrame == AnimationFrame(TimeAdvance(0, InitialWaveSpeed))

NextInputs ==
    \/ FirstFrame
    \/ RunExperiment
    \/ TeleportCommit
    \/ ClearMessage
    \/ AddQuantumObject
    \/ ToggleEntanglement

SpecInputs == InitInputs /\ [][NextInputs]_vars

----------------------------------------------------------------------------
\* The earlier version of the component (src/unnamed/part_000).  It has no
\* experiment modes, no wave speed, no measurements and no reset; its state is
\* the part of the later version's state named in earlierVars, and its actions
\* are written over that part alone.

earlierVars == <<objects, selectedObject, isRunning, time, showInterference,
                 teleportationSuccess, teleportTimers, messageTimers,
                 resonanceNodes, frame>>

\* the state cells' initial values and the generated node array
EarlierInit ==
    /\ objects = SeedObjects
    /\ selectedObject = Null
    /\ isRunning = TRUE
    /\ time = 0
    /\ showInterference = TRUE
    /\ teleportationSuccess = "null"
    /\ teleportTimers = <<>>
    /\ messageTimers = 0
    /\ resonanceNodes = 1
    /\ frame = NoFrame

\* newObj of the earlier addQuantumObject
EarlierNewObject(newId, p, f, ph, a) ==
    [id |-> newId, x |-> p[1], y |-> p[2], frequency |-> f, phase |-> ph,
     amplitude |-> a, isEntangled |-> FALSE, entangledWith |-> Null,
     isTeleporting |-> FALSE]

\* the earlier render(): background, field, links, glyphs
EarlierRender(objs, t, particles) ==
    [painted |-> TRUE, time |-> t, links |-> RenderedLinks(objs),
     particles |-> particles,
     dimmed |-> {i \in DOMAIN objs : objs[i].isTeleporting}]

\* what a frame of the later version shows of field, links and glyphs
FieldLinksGlyphs(f) ==
    IF f.painted
    THEN [painted |-> TRUE, time |-> f.time, links |-> f.links,
          particles |-> f.particles, dimmed |-> f.dimmed]
    ELSE f

\* setTime(prev => prev + 0.02)
EarlierTimeAdvance(t) == t + BaseIncrement

EarlierAnimate ==
    /\ isRunning
    /\ time' = EarlierTimeAdvance(time)
    /\ FieldLinksGlyphs(frame') = EarlierRender(objects, time, showInterference)
    /\ UNCHANGED <<objects, selectedObject, isRunning, showInterference,
                   teleportationSuccess, teleportTimers, messageTimers,
                   resonanceNodes>>

EarlierHandleTeleport ==
    /\ IF Len(objects) < 2
       THEN UNCHANGED <<objects, teleportTimers>>
       ELSE /\ objects' = MarkTeleporting(objects)
            /\ teleportTimers' = Append(teleportTimers,
                                        TimerRecord(objects, teleportTimers))
    /\ UNCHANGED <<selectedObject, isRunning, time, showInterference,
                   teleportationSuccess, messageTimers, resonanceNodes, frame>>

EarlierTeleportCommit ==
    /\ teleportTimers # <<>>
    /\ objects' = SwapFirstTwo(objects)
    /\ teleportTimers' = Disturbed(Tail(teleportTimers))
    /\ teleportationSuccess' = "Quantum teleportation successful!"
    /\ messageTimers' = messageTimers + 1
    /\ UNCHANGED <<selectedObject, isRunning, time, showInterference,
                   resonanceNodes, frame>>

EarlierClearMessage ==
    /\ messageTimers > 0
    /\ messageTimers' = messageTimers - 1
    /\ teleportationSuccess' = "null"
    /\ UNCHANGED <<objects, selectedObject, isRunning, time, showInterference,
                   teleportTimers, resonanceNodes, frame>>

EarlierAddQuantumObject ==
    /\ \E p \in AddPoints, f \in RandomFrequencies, ph \in RandomPhases,
          a \in RandomAmplitudes :
         objects' = Append(objects,
                           EarlierNewObject(Len(objects) + 1, p, f, ph, a))
    /\ UNCHANGED <<selectedObject, isRunning, time, showInterference,
                   teleportationSuccess, teleportTimers, messageTimers,
                   resonanceNodes, frame>>

EarlierToggleEntanglement ==
    /\ \E objId \in Ids(objects) : objects' = FlipEntangled(objects, objId)
    /\ UNCHANGED <<selectedObject, isRunning, time, showInterference,
                   teleportationSuccess, teleportTimers, messageTimers,
                   resonanceNodes, frame>>

EarlierSelectObject ==
    /\ \E objId \in Ids(objects) : selectedObject' = objId
    /\ UNCHANGED <<objects, isRunning, time, showInterference,
                   teleportationSuccess, teleportTimers, messageTimers,
                   resonanceNodes, frame>>

EarlierUpdateFrequency ==
    /\ selectedObject \in Ids(objects)
    /\ \E v \in SliderFrequencies :
         objects' = IF selectedObject # Null
                    THEN WithFrequency(objects, selectedObject, v)
                    ELSE objects
    /\ UNCHANGED <<selectedObject, isRunning, time, showInterference,
                   teleportationSuccess, teleportTimers, messageTimers,
                   resonanceNodes, frame>>

EarlierPauseResume ==
    /\ isRunning' = ~isRunning
    /\ UNCHANGED <<objects, selectedObject, time, showInterference,
                   teleportationSuccess, teleportTimers, messageTimers,
                   resonanceNodes, frame>>

EarlierNext ==
    \/ EarlierAnimate
    \/ EarlierHandleTeleport
    \/ EarlierTeleportCommit
    \/ EarlierClearMessage
    \/ EarlierAddQuantumObject
    \/ EarlierToggleEntanglement
    \/ EarlierSelectObject
    \/ EarlierUpdateFrequency
    \/ EarlierPauseResume

\* The later version restricted to the operations both versions offer; wave
\* speed, mode and measurement mode keep their initial values 1.0,
\* teleportation and off, as nothing here changes them.
NextCommon ==
    \/ Tick
    \/ PauseResume
    \/ RunExperiment
    \/ TeleportCommit
    \/ ClearMessage
    \/ AddQuantumObject
    \/ ToggleEntanglement
    \/ SelectObject
    \/ UpdateFrequency

SpecCommon == Init /\ [][NextCommon]_vars

----------------------------------------------------------------------------
\* Properties

Pos(objs, i) == <<objs[i].x, objs[i].y>>

\* 20 entries: the 19 kept by slice(-19) and the new one
LogCapacity == 20

TeleportStarted ==
    RunExperiment /\ experimentMode = "teleportation" /\ Len(objects) >= 2

\* C1 as stated: whenever a teleport's commit fires, the first two objects hold
\* each other's positions as they were when that teleport was invoked, whatever
\* happened during the delay.
C1_CommitSwapsInvocationPositions ==
    [][TeleportCommit =>
          /\ Pos(objects', 1) = Head(teleportTimers).p1
          /\ Pos(objects', 2) = Head(teleportTimers).p0]_vars

\* C1 amended: when a commit fires the first two objects exchange the positions
\* they hold at that moment; these are the positions of the invocation whenever
\* no other teleport's commit and no reset fell between invocation and commit.
C1_CommitSwapsCurrentPositions ==
    [][TeleportCommit =>
          /\ Pos(objects', 1) = Pos(objects, 2)
          /\ Pos(objects', 2) = Pos(objects, 1)
          /\ Head(teleportTimers).clean =>
                /\ Pos(objects', 1) = Head(teleportTimers).p1
                /\ Pos(objects', 2) = Head(teleportTimers).p0]_vars

\* the spec's example: P0 at (150,200), P1 at (550,300), after the commit
C1_Witness ==
    /\ lastAction = "TeleportCommit"
    /\ Pos(objects, 1) = <<550, 300>>
    /\ Pos(objects, 2) = <<150, 200>>

\* C2 as stated: while any teleport is pending both of the first two objects
\* have isTeleporting = true and the positions of its invocation, and after a
\* commit has fired both have isTeleporting = false.
C2_FlagTracksPhase ==
    [][/\ \A k \in DOMAIN teleportTimers' :
             /\ objects'[1].isTeleporting /\ objects'[2].isTeleporting
             /\ Pos(objects', 1) = teleportTimers'[k].p0
             /\ Pos(objects', 2) = teleportTimers'[k].p1
       /\ TeleportCommit =>
             ~objects'[1].isTeleporting /\ ~objects'[2].isTeleporting]_vars

\* C2 amended: while a teleport is pending and no other teleport's commit and
\* no reset has happened since it was invoked, both of the first two objects
\* have isTeleporting = true and the positions of the invocation; right after
\* any commit both have isTeleporting = false, also when a later teleport is
\* still pending.
C2_FlagTracksUndisturbedPhase ==
    [][/\ \A k \in DOMAIN teleportTimers' :
             teleportTimers'[k].clean =>
                /\ objects'[1].isTeleporting /\ objects'[2].isTeleporting
                /\ Pos(objects', 1) = teleportTimers'[k].p0
                /\ Pos(objects', 2) = teleportTimers'[k].p1
       /\ TeleportCommit =>
             ~objects'[1].isTeleporting /\ ~objects'[2].isTeleporting]_vars

\* a teleport is pending, undisturbed, while the user goes on working
C2_Witness ==
    /\ Len(teleportTimers) = 1
    /\ teleportTimers[1].clean
    /\ lastAction = "AddQuantumObject"
    /\ objects[1].isTeleporting /\ objects[2].isTeleporting

\* C3: pausing leaves the pending commits in place, a pending commit can fire
\* while the simulation is paused, and when it does it swaps the positions and
\* clears isTeleporting with isRunning still false.
C3_PauseKeepsCommit ==
    [][/\ PauseResume => teleportTimers' = teleportTimers
       /\ (~isRunning /\ teleportTimers # <<>>) => ENABLED TeleportCommit
       /\ (~isRunning /\ TeleportCommit) =>
             /\ ~isRunning'
             /\ Pos(objects', 1) = Pos(objects, 2)
             /\ Pos(objects', 2) = Pos(objects, 1)
             /\ ~objects'[1].isTeleporting /\ ~objects'[2].isTeleporting]_vars

\* a commit has just fired with the simulation paused
C3_Witness ==
    /\ lastAction = "TeleportCommit"
    /\ ~isRunning
    /\ Pos(objects, 1) = <<550, 300>>
    /\ ~objects[1].isTeleporting /\ ~objects[2].isTeleporting

\* C4: teleport() with fewer than two objects sets no flag, moves nothing,
\* schedules no commit and emits no message.
C4_TeleportNeedsTwo ==
    [][(RunExperiment /\ experimentMode = "teleportation" /\ Len(objects) < 2) =>
          UNCHANGED <<objects, teleportTimers, teleportationSuccess,
                      messageTimers>>]_vars

\* teleport() has been invoked on a registry of fewer than two objects
C4_Witness ==
    /\ lastAction = "RunExperiment"
    /\ experimentMode = "teleportation"
    /\ Len(objects) = 1

\* C5: both phases of a teleport leave every object from the third on as it
\* was, keep the registry's length, and keep id, frequency, phase, amplitude,
\* isEntangled and entangledWith of the first two.
C5_TeleportFrame ==
    [][(TeleportStarted \/ TeleportCommit) =>
          /\ Len(objects') = Len(objects)
          /\ \A i \in DOMAIN objects :
                IF i > 2 THEN objects'[i] = objects[i]
                ELSE /\ objects'[i].id = objects[i].id
                     /\ objects'[i].frequency = objects[i].frequency
                     /\ objects'[i].phase = objects[i].phase
                     /\ objects'[i].amplitude = objects[i].amplitude
                     /\ objects'[i].isEntangled = objects[i].isEntangled
                     /\ objects'[i].entangledWith = objects[i].entangledWith]_vars

\* a commit has fired on a registry that holds more than the first two
C5_Witness ==
    /\ lastAction = "TeleportCommit"
    /\ Len(objects) >= 3
    /\ Pos(objects, 1) = <<550, 300>>

C7_ToggleFrame ==
    [][/\ \A objId \in Ids(objects) :
             FlipEntangled(FlipEntangled(objects, objId), objId) = objects
       /\ ToggleEntanglement =>
             /\ Len(objects') = Len(objects)
             /\ \E objId \in Ids(objects) :
                   \A i \in DOMAIN objects :
                      /\ [objects'[i] EXCEPT !.isEntangled = objects[i].isEntangled]
                            = objects[i]
                      /\ (objects'[i].isEntangled # objects[i].isEntangled)
                            <=> (objects[i].id = objId)
             /\ UNCHANGED <<selectedObject, isRunning, time, waveSpeed,
                            experimentMode, measurements, measurementMode,
                            showInterference, teleportationSuccess,
                            teleportTimers, messageTimers, frame>>]_vars

\* one member of the seeded pair is flagged entangled and its partner is not
C7_Witness ==
    /\ lastAction = "ToggleEntanglement"
    /\ objects[1].isEntangled /\ ~objects[2].isEntangled
    /\ objects[1].entangledWith = 2 /\ objects[2].entangledWith = 1

\* C8 as stated: the log is empty whenever measurement mode is inactive.
C8_LogEmptyWhenInactive == ~measurementMode => measurements = <<>>

\* C8 amended: while measurement mode is inactive the log does not grow: each
\* step leaves it as it was or, for a reset, empties it; switching measurement
\* mode off or on keeps the entries recorded so far, and a reset empties the log.
C8_LogFrozenWhenInactive ==
    [][/\ ~measurementMode =>
             (measurements' = measurements \/ measurements' = <<>>)
       /\ ToggleMeasurementMode => measurements' = measurements
       /\ ResetExperiment => measurements' = <<>>]_vars

\* measurement mode was switched off after samples were taken
C8_Witness ==
    /\ lastAction = "ToggleMeasurementMode"
    /\ ~measurementMode
    /\ measurements # <<>>

\* C9: the log never holds more than 20 entries.
C9_LogBounded == Len(measurements) <= LogCapacity

\* the log is full and its oldest sample, taken at time 0, has been dropped
C9_Witness ==
    /\ Len(measurements) = LogCapacity
    /\ measurements[1].timestamp = MeasurePeriod

\* C10: the timestamps of the log are strictly ascending.
C10_LogAscending ==
    \A i \in 1..(Len(measurements) - 1) :
        measurements[i].timestamp < measurements[i + 1].timestamp

\* frames have appended a second sample to the log
C10_Witness ==
    /\ lastAction = "Tick"
    /\ Len(measurements) >= 2

\* C11: consecutive samples of the log lie about one period (10 simulated-time
\* units, give or take the sampling window) apart, whatever the wave speed; this
\* is the lower half of the cadence, no two samples closer than that.
C11_SamplesOnePeriodApart ==
    \A i \in 1..(Len(measurements) - 1) :
        measurements[i + 1].timestamp - measurements[i].timestamp
            >= MeasurePeriod - MeasureWindow

\* C12: the log gains an entry only by a frame taken with measurement mode
\* active, and the entry carries the frame's time and the active mode as type.
C12_AppendOnlyWhenActive ==
    [][(measurements' # measurements /\ measurements' # <<>>) =>
          /\ UNCHANGED resonanceNodes
          /\ lastAction' = "Tick"
          /\ measurementMode
          /\ measurements'[Len(measurements')].type = experimentMode
          /\ measurements'[Len(measurements')].timestamp = time]_vars

\* a sample was taken in a mode other than the initial one
C12_Witness ==
    /\ lastAction = "Tick"
    /\ measurements # <<>>
    /\ measurements[Len(measurements)].type = "tunneling"

\* C13: an append to a log of 20 entries leaves entries 2..20 in order before
\* the new sample; an append to a shorter log leaves all of them before it.
C13_AppendDropsOldest ==
    [][(measurements' # measurements /\ measurements' # <<>>) =>
          SubSeq(measurements', 1, Len(measurements') - 1)
             = IF Len(measurements) >= LogCapacity
               THEN Tail(measurements)
               ELSE measurements]_vars

\* the 21st sample has been appended to a full log
C13_Witness ==
    /\ lastAction = "Tick"
    /\ Len(measurements) = LogCapacity
    /\ measurements[1].timestamp = MeasurePeriod
    /\ measurements[LogCapacity].timestamp = LogCapacity * MeasurePeriod

\* C14: a frame runs only while running and advances time by 0.02 times the
\* wave speed (SpeedScale * delta = BaseIncrement * waveSpeed in model units);
\* while paused no step but a reset changes time.
C14_TickAdvance ==
    [][/\ lastAction' = "Tick" =>
             /\ isRunning
             /\ SpeedScale * (time' - time) = BaseIncrement * waveSpeed
       /\ (~isRunning /\ lastAction' # "ResetExperiment") => time' = time]_vars

\* a frame at the top of the speed range, 3.0: time went from 0 to 0.06
C14_Witness ==
    /\ lastAction = "Tick"
    /\ waveSpeed = 30
    /\ time = 30

\* C15: while paused no frame is taken: the canvas keeps its last frame, time
\* and the log change by a reset at most; while running the next frame is
\* due again.
C15_PausedIsIdle ==
    [][/\ ~isRunning =>
             /\ lastAction' # "Tick"
             /\ frame' = frame
             /\ ~ENABLED Tick
             /\ lastAction' # "ResetExperiment" =>
                   (time' = time /\ measurements' = measurements)
       /\ (isRunning /\ TimeAdvance(time, waveSpeed) <= MaxTime) =>
             ENABLED Tick]_vars

\* paused after a frame was painted, measurement mode switched on meanwhile
C15_Witness ==
    /\ ~isRunning
    /\ frame.painted
    /\ measurementMode
    /\ lastAction = "ToggleMeasurementMode"

\* C16: pause and resume flip isRunning and leave every other part of the
\* state as it was; while paused time stays at its value unless reset.
C16_PauseResumeFrame ==
    [][/\ PauseResume =>
             /\ isRunning' = ~isRunning
             /\ UNCHANGED <<objects, selectedObject, time, waveSpeed,
                            experimentMode, measurements, measurementMode,
                            showInterference, teleportationSuccess,
                            teleportTimers, messageTimers, frame>>
       /\ (~isRunning /\ ~ResetExperiment) => time' = time]_vars

\* resumed with the time reached before the pause
C16_Witness ==
    /\ lastAction = "PauseResume"
    /\ isRunning
    /\ time > 0

\* C17: reset sets time to 0, and reset is offered whether running or paused.
C17_ResetZeroesTime ==
    [][/\ ResetExperiment => time' = 0
       /\ userOps < MaxOps => ENABLED ResetExperiment]_vars

\* reset while paused, after frames had advanced time
C17_Witness ==
    /\ lastAction = "ResetExperiment"
    /\ ~isRunning
    /\ time = 0
    /\ frame.painted /\ frame.time > 0

C19_TapOnlyInTeleportation ==
    [][(CanvasTap /\ experimentMode # "teleportation") =>
          UNCHANGED <<objects, selectedObject, isRunning, time, waveSpeed,
                      experimentMode, measurements, measurementMode,
                      showInterference, teleportationSuccess, teleportTimers,
                      messageTimers, frame>>]_vars

\* the canvas was tapped in interference mode
C19_Witness ==
    /\ lastAction = "CanvasTap"
    /\ experimentMode = "interference"
    /\ objects = SeedObjects

\* C20: no two registered objects share an id.
C20_UniqueIds ==
    \A i, j \in DOMAIN objects : i # j => objects[i].id # objects[j].id

\* C21 as stated: no step shortens the registry or puts another object at an
\* index that was taken.
C21_AppendOnly ==
    [][/\ Len(objects') >= Len(objects)
       /\ \A i \in DOMAIN objects : objects'[i].id = objects[i].id]_vars

\* C21 amended: every step but a reset keeps each registered object at its
\* index and never shortens the registry; a reset puts the two seeded objects
\* in place of the whole registry.
C21_AppendOnlyButReset ==
    [][/\ ~ResetExperiment =>
             /\ Len(objects') >= Len(objects)
             /\ \A i \in DOMAIN objects : objects'[i].id = objects[i].id
       /\ ResetExperiment => objects' = SeedObjects]_vars

\* an added object is still the third after a teleport and its commit
C21_Witness ==
    /\ lastAction = "TeleportCommit"
    /\ Len(objects) = 3
    /\ objects[3].id = 3
    /\ Pos(objects, 1) = <<550, 300>>

\* C22: the active mode is always one of the four, every mode can be switched
\* to from every mode, and the switch changes nothing but the active mode.
C22_SetModeFrame ==
    [][/\ experimentMode \in Modes
       /\ userOps < MaxOps =>
             \A m \in Modes : ENABLED (SetExperimentMode /\ experimentMode' = m)
       /\ SetExperimentMode =>
             UNCHANGED <<objects, selectedObject, isRunning, time, waveSpeed,
                         measurements, measurementMode, showInterference,
                         teleportationSuccess, teleportTimers, messageTimers,
                         frame>>]_vars

\* the mode was switched away from teleportation with a commit pending
C22_Witness ==
    /\ lastAction = "SetExperimentMode"
    /\ experimentMode = "superposition"
    /\ teleportTimers # <<>>
    /\ objects[1].isTeleporting

\* C23: a rendered frame holds the overlay of the mode active when it was
\* rendered and no other overlay; in teleportation mode it holds none.
C23_OverlayOfActiveMode ==
    [][lastAction' = "Tick" =>
          frame'.overlays = IF experimentMode = "teleportation"
                            THEN {}
                            ELSE {experimentMode}]_vars

\* a frame rendered in superposition mode after two mode switches
C23_Witness ==
    /\ lastAction = "Tick"
    /\ experimentMode = "superposition"
    /\ frame.overlays = {"superposition"}
    /\ frame.time > 0
    /\ userOps = 2

\* C24: runExperiment starts a teleport in teleportation mode only; in the
\* other modes it leaves the registry and the pending commits alone and shows
\* a message; in interference mode the particle overlay is on afterwards, in
\* tunneling and superposition mode it is as before.
C24_RunDispatch ==
    [][RunExperiment =>
          /\ (experimentMode = "teleportation" /\ Len(objects) >= 2) =>
                /\ Len(teleportTimers') = Len(teleportTimers) + 1
                /\ objects'[1].isTeleporting /\ objects'[2].isTeleporting
          /\ experimentMode # "teleportation" =>
                /\ UNCHANGED <<objects, teleportTimers>>
                /\ teleportationSuccess' # "null"
                /\ messageTimers' = messageTimers + 1
          /\ experimentMode = "interference" => showInterference'
          /\ experimentMode \in {"tunneling", "superposition"} =>
                UNCHANGED showInterference]_vars

\* the last frame was painted without particles; runExperiment in
\* interference mode has switched them on
C24_Witness ==
    /\ lastAction = "RunExperiment"
    /\ experimentMode = "interference"
    /\ frame.painted /\ ~frame.particles
    /\ showInterference

\* C25: the frequency slider gives the objects whose id is selected the
\* slider's value and changes nothing else; when the selected id is none or
\* names no registered object the slider is not offered and the update would
\* leave the registry as it is.
C25_FrequencyFrame ==
    [][/\ UpdateFrequency =>
             /\ Len(objects') = Len(objects)
             /\ \E v \in SliderFrequencies :
                   \A i \in DOMAIN objects :
                      objects'[i] = IF objects[i].id = selectedObject
                                    THEN [objects[i] EXCEPT !.frequency = v]
                                    ELSE objects[i]
             /\ UNCHANGED <<selectedObject, isRunning, time, waveSpeed,
                            experimentMode, measurements, measurementMode,
                            showInterference, teleportationSuccess,
                            teleportTimers, messageTimers, frame>>
       /\ selectedObject \notin Ids(objects) =>
             /\ ~ENABLED UpdateFrequency
             /\ \A v \in SliderFrequencies :
                   WithFrequency(objects, selectedObject, v) = objects]_vars

\* the second object was selected and given the slider's value
C25_Witness ==
    /\ lastAction = "UpdateFrequency"
    /\ selectedObject = 2
    /\ objects[2].frequency = 5
    /\ objects[1].frequency = 20

\* C27: the render pass of a frame has no effect on the simulation state: it
\* leaves the measurement log as it found it, and a second pass with the same
\* inputs would leave the log as the first pass did.
C27_RenderPure ==
    [][lastAction' = "Tick" =>
          /\ measurements' = measurements
          /\ \A v \in MeasurementValues :
                RenderLog(measurements', measurementMode, time, v, experimentMode)
                   = measurements']_vars

\* C29: the frame painted by a tick, and the sample recorded in it, carry the
\* time the tick's advance results in.
C29_RenderAfterAdvance ==
    [][lastAction' = "Tick" =>
          /\ frame'.time = time'
          /\ measurements' # measurements =>
                measurements'[Len(measurements')].timestamp = time']_vars

RunOrder(timers) == [i \in DOMAIN timers |-> timers[i].n]

\* the positions of the first two are those of (a, b) exchanged when n is odd,
\* those of (a, b) when n is even
ExchangedIffOdd(objs, a, b, n) ==
    IF n % 2 = 1
    THEN Pos(objs, 1) = b /\ Pos(objs, 2) = a
    ELSE Pos(objs, 1) = a /\ Pos(objs, 2) = b

\* C30 as stated: each invocation adds one pending commit, no step but a commit
\* takes one away, the commits fire oldest first, and when the last commit of
\* k overlapping invocations has fired the first two objects' positions are
\* exchanged relative to the start exactly when k is odd.
C30_CommitsInOrderParity ==
    [][/\ TeleportStarted => Len(teleportTimers') = Len(teleportTimers) + 1
       /\ ~TeleportCommit => Len(teleportTimers') >= Len(teleportTimers)
       /\ TeleportCommit =>
             /\ RunOrder(teleportTimers') = RunOrder(Tail(teleportTimers))
             /\ Len(teleportTimers) = 1 =>
                   LET last == Head(teleportTimers)
                   IN  ExchangedIffOdd(objects', last.s0, last.s1, last.n)]_vars

\* The statement of C30 restricted to runs of overlapping invocations that no
\* reset falls into: there the parity holds.
C30_CommitsInOrderParityNoReset ==
    [][/\ TeleportStarted => Len(teleportTimers') = Len(teleportTimers) + 1
       /\ ~TeleportCommit => Len(teleportTimers') >= Len(teleportTimers)
       /\ TeleportCommit =>
             /\ RunOrder(teleportTimers') = RunOrder(Tail(teleportTimers))
             /\ (Len(teleportTimers) = 1 /\ Head(teleportTimers).intact) =>
                   LET last == Head(teleportTimers)
                   IN  ExchangedIffOdd(objects', last.s0, last.s1, last.n)]_vars

\* two overlapping invocations: the first commit has fired and exchanged the
\* positions, the second is still pending
C30_Witness ==
    /\ lastAction = "TeleportCommit"
    /\ Len(teleportTimers) = 1
    /\ teleportTimers[1].n = 2
    /\ teleportTimers[1].intact
    /\ Pos(objects, 1) = <<550, 300>>

\* the node grid of an 800 x 600 canvas at spacing 40
GridPoints ==
    {<<NodeSpacing * i, NodeSpacing * j>> : i \in 0..19, j \in 0..14}

\* C26: the array built at startup has exactly 300 nodes, one at each point of
\* {0,40,...,760} x {0,40,...,560}, and no step puts another array in its place
\* (the array itself is never written to), so positions, baseline intensities
\* and phases stay as generated.
C26_GridFixed ==
    [][/\ lastAction = "Init" =>
             LET nodes == GenerateNodes(resonanceNodes)
             IN  /\ Len(nodes) = 300
                 /\ {<<nodes[k].x, nodes[k].y>> : k \in DOMAIN nodes} = GridPoints
                 /\ \A k \in DOMAIN nodes :
                       /\ nodes[k].intensity \in 20..49
                       /\ nodes[k].phase \in 0..359
       /\ resonanceNodes' = resonanceNodes]_vars

\* after frames, a teleport with its commit, a mode switch and a reset the
\* array is the one built at startup
C26_Witness ==
    /\ lastAction = "ResetExperiment"
    /\ userOps = 3
    /\ frame.painted
    /\ experimentMode # "teleportation"
    /\ messageTimers > 0
    /\ GenerateNodes(resonanceNodes) = GenerateNodes(1)

\* C28: restricted to the common operations at wave speed 1, teleportation
\* mode and measurement mode off, the later version starts in the earlier
\* version's initial state, each of its steps is a step of the earlier version
\* on objects, time, running flag and the rest of the earlier state, its frames
\* show the field, links and glyphs the earlier render() draws, and no overlay.
C28_RefinesEarlier ==
    /\ EarlierInit
    /\ [][EarlierNext]_earlierVars
    /\ [][lastAction' = "Tick" => frame'.overlays = {}]_vars

\* frames, an added object and a toggled entanglement in the common part
C28_Witness ==
    /\ lastAction = "ToggleEntanglement"
    /\ waveSpeed = InitialWaveSpeed /\ experimentMode = "teleportation"
    /\ ~measurementMode
    /\ Len(objects) = 3
    /\ frame.painted /\ frame.links = {<<1, 2>>}
    /\ ~objects[1].isEntangled
    /\ time = 2 * BaseIncrement

\* C31: a reset leaves the registry holding exactly the two seeded objects, and
\* while the registry is in that configuration no step other than a user
\* operation takes it out of it, pending teleport commits included.
C31_ResetConfigurationStays ==
    [][/\ ResetExperiment => objects' = SeedObjects
       /\ (objects = SeedObjects /\ userOps' = userOps) =>
             objects' = SeedObjects]_vars

\* C32: a commit keeps every object that is registered when it fires, with
\* every field but the positions and isTeleporting of the first two, so what
\* was added, toggled or set during the delay is there after the commit.
C32_CommitKeepsChanges ==
    [][TeleportCommit =>
          /\ DOMAIN objects' = DOMAIN objects
          /\ \A i \in DOMAIN objects :
                [objects'[i] EXCEPT !.x = 0, !.y = 0, !.isTeleporting = FALSE]
                   = [objects[i] EXCEPT
                         !.x = 0, !.y = 0,
                         !.isTeleporting =
                            IF i <= 2 THEN FALSE ELSE objects[i].isTeleporting]]_vars

\* a commit has fired after an object was added and the first object's
\* entanglement flag was switched off
C32_Witness ==
    /\ lastAction = "TeleportCommit"
    /\ userOps = 3
    /\ teleportTimers = <<>>
    /\ Len(objects) = 3
    /\ ~objects[1].isEntangled /\ objects[2].isEntangled
    /\ Pos(objects, 2) = <<150, 200>>

\* C34: the registry holds at least two objects, so a teleport always takes
\* the branch that schedules a commit and a firing commit finds the first two.
C34_AtLeastTwo ==
    /\ Len(objects) >= 2
    /\ {1, 2} \subseteq DOMAIN objects

\* a reset has brought a longer registry back to two with a commit pending
C34_Witness ==
    /\ lastAction = "ResetExperiment"
    /\ Len(objects) = 2
    /\ teleportTimers # <<>>
    /\ userOps = 3

\* C35: the selection is empty or the id of a registered object.
C35_SelectionRegistered ==
    selectedObject = Null \/ selectedObject \in Ids(objects)

Teleporting == \E i \in DOMAIN objects : objects[i].isTeleporting

\* C33: while some object has isTeleporting = true a teleport commit is
\* pending, and, timers firing when due, a state with some object teleporting
\* is followed by one in which no object is.
C33_NeverStuckTeleporting ==
    /\ [](Teleporting => teleportTimers # <<>>)
    /\ Teleporting ~> ~Teleporting

\* two overlapping teleports have both committed and no flag is left
C33_Witness ==
    /\ lastAction = "TeleportCommit"
    /\ ~Teleporting
    /\ teleportTimers = <<>>
    /\ messageTimers = 2
    /\ userOps = 2
    /\ Pos(objects, 1) = <<150, 200>>

====
